---------------------------- MODULE Spec2Model ----------------------------
(***************************************************************************)
(* nanofish HTTP codec: the request parser (request.rs), the method table  *)
(* (method.rs) and the response builder (response.rs).                      *)
(*                                                                         *)
(* A byte span (&[u8]) is a sequence of integers 0..255.  A string (&str)  *)
(* is a sequence of Unicode scalar values; from_utf8 decodes a byte span    *)
(* into one and as_bytes encodes it back.  Indices of the source are        *)
(* zero-based; sequences here are one-based, so data[i] of the source is    *)
(* data[i + 1] here.                                                        *)
(***************************************************************************)
EXTENDS Integers, Sequences, FiniteSets, TLC

VARIABLES
    buffer,          \* the connection's read buffer: the bytes received so far
    reads,           \* how many reads filled it
    end_of_headers,  \* find_double_crlf(buffer), as try_from computes it
    request,         \* the Result<HttpRequest, Error> of the last parse
    headers_str,     \* the header block handed to parse_from
    method_in,       \* the token handed to HttpMethod::try_from
    method_out,      \* its results: [str |-> from &str, bytes |-> from &[u8]]
    response,        \* the HttpResponse handed to build_bytes
    capacity,        \* MAX_RESPONSE_SIZE of that build_bytes call
    bytes,           \* the Vec<u8, MAX_RESPONSE_SIZE> build_bytes returned
    original,        \* the request a client put on the wire
    query,           \* the name handed to get_header
    lookup,          \* the Option<&str> get_header returned
    num_in,          \* the usize handed to write_decimal_to_buffer
    panicked,        \* whether that call panicked (index out of bounds)
    handled          \* the Result<HttpResponse, Error> of handle_request

vars == <<buffer, reads, end_of_headers, request, headers_str, method_in, method_out,
          response, capacity, bytes, original, query, lookup, num_in, panicked, handled>>

---------------------------------------------------------------------------
(* Option<T> and small helpers of the standard library.                   *)

Some(x) == [some |-> TRUE, v |-> x]
None == [some |-> FALSE, v |-> 0]

Min(S) == CHOOSE x \in S : \A y \in S : x <= y

\* usize::saturating_sub
saturating_sub(a, b) == IF a >= b THEN a - b ELSE 0

\* data[i..j] of the source (zero-based, j exclusive)
Slice(data, i, j) == SubSeq(data, i + 1, j)

\* data[i..] of the source
SliceFrom(data, i) == Slice(data, i, Len(data))

---------------------------------------------------------------------------
(* request.rs: find_double_crlf                                            *)

DOUBLE_CRLF == <<13, 10, 13, 10>>

\* a plausible slip: the scan stops one index early and misses a separator
\* that occupies the last four bytes
find_double_crlf_short(data) ==
    LET hits == {i \in 0..(saturating_sub(Len(data), 4) - 1) :
                    Slice(data, i, i + 4) = DOUBLE_CRLF}
    IN  IF hits = {} THEN None ELSE Some(Min(hits))

\* a plausible slip: rfind-like, the last separator of the data is taken
find_double_crlf_last(data) ==
    LET hits == {i \in 0..(saturating_sub(Len(data), 3) - 1) :
                    Slice(data, i, i + 4) = DOUBLE_CRLF}
    IN  IF hits = {} THEN None ELSE Some(CHOOSE x \in hits : \A y \in hits : y <= x)

\* (0..data.len().saturating_sub(3)).find(|&i| &data[i..i + 4] == DOUBLE_CRLF)
find_double_crlf(data) ==
    LET hits == {i \in 0..(saturating_sub(Len(data), 3) - 1) :
                    Slice(data, i, i + 4) = DOUBLE_CRLF}
    IN  IF hits = {} THEN None ELSE Some(Min(hits))

---------------------------------------------------------------------------
(* core::str::from_utf8 and str::as_bytes: UTF-8 as the standard library   *)
(* accepts it (no overlong forms, no surrogates, nothing above U+10FFFF).  *)

IsCont(b) == b >= 128 /\ b <= 191

\* the scalar value and width of the well-formed sequence that starts at
\* one-based index i of b, or width 0 when none starts there
Utf8At(b, i) ==
    LET n  == Len(b)
        b0 == b[i]
        b1 == IF i + 1 <= n THEN b[i + 1] ELSE 0
        b2 == IF i + 2 <= n THEN b[i + 2] ELSE 0
        b3 == IF i + 3 <= n THEN b[i + 3] ELSE 0
    IN  IF b0 <= 127 THEN [w |-> 1, c |-> b0]
        ELSE IF b0 >= 194 /\ b0 <= 223 /\ IsCont(b1)
             THEN [w |-> 2, c |-> (b0 - 192) * 64 + (b1 - 128)]
        ELSE IF b0 >= 224 /\ b0 <= 239 /\ IsCont(b1) /\ IsCont(b2)
                /\ (b0 = 224 => b1 >= 160) /\ (b0 = 237 => b1 <= 159)
             THEN [w |-> 3, c |-> (b0 - 224) * 4096 + (b1 - 128) * 64 + (b2 - 128)]
        ELSE IF b0 >= 240 /\ b0 <= 244 /\ IsCont(b1) /\ IsCont(b2) /\ IsCont(b3)
                /\ (b0 = 240 => b1 >= 144) /\ (b0 = 244 => b1 <= 143)
             THEN [w |-> 4, c |-> (b0 - 240) * 262144 + (b1 - 128) * 4096
                                   + (b2 - 128) * 64 + (b3 - 128)]
        ELSE [w |-> 0, c |-> 0]

\* the one-based indices of s, in order
Indices(s) == [i \in 1..Len(s) |-> i]

\* core::str::from_utf8: Ok(the string) or Err(Utf8Error).  A sequence
\* starts at each byte that is not a continuation byte; the span is valid
\* when it does not begin inside a sequence and a well-formed sequence reaches
\* from each start exactly to the next one, or to the end.
from_utf8(b) ==
    LET starts == SelectSeq(Indices(b), LAMBDA i : ~IsCont(b[i]))
        n == Len(starts)
        next(k) == IF k < n THEN starts[k + 1] ELSE Len(b) + 1
        valid == \/ Len(b) = 0
                 \/ /\ ~IsCont(b[1])
                    /\ \A k \in 1..n : Utf8At(b, starts[k]).w = next(k) - starts[k]
    IN  IF valid THEN [ok |-> TRUE, s |-> [k \in 1..n |-> Utf8At(b, starts[k]).c]]
        ELSE [ok |-> FALSE, s |-> <<>>]

EncodeChar(c) ==
    IF c < 128 THEN <<c>>
    ELSE IF c < 2048 THEN <<192 + (c \div 64), 128 + (c % 64)>>
    ELSE IF c < 65536
         THEN <<224 + (c \div 4096), 128 + ((c \div 64) % 64), 128 + (c % 64)>>
    ELSE <<240 + (c \div 262144), 128 + ((c \div 4096) % 64),
           128 + ((c \div 64) % 64), 128 + (c % 64)>>

RECURSIVE Encode(_)
Encode(s) == IF s = <<>> THEN <<>> ELSE EncodeChar(Head(s)) \o Encode(Tail(s))

\* str::as_bytes: the UTF-8 bytes of a string (an ASCII string is its own
\* encoding)
as_bytes(s) == IF \A i \in 1..Len(s) : s[i] < 128 THEN s ELSE Encode(s)

---------------------------------------------------------------------------
(* str::lines, char::is_whitespace, str::split_whitespace, str::trim,      *)
(* str::find(':')                                                          *)

\* char::is_whitespace: the Unicode White_Space property
is_whitespace(c) ==
    \/ (c >= 9 /\ c <= 13) \/ c = 32 \/ c = 133 \/ c = 160 \/ c = 5760
    \/ (c >= 8192 /\ c <= 8202) \/ c = 8232 \/ c = 8233 \/ c = 8239
    \/ c = 8287 \/ c = 12288

\* one line of str::lines: a trailing "\n" is stripped, and then a "\r"
\* before it; a line that ends the input without "\n" is returned as it is
StripLine(piece) ==
    LET n == Len(piece)
    IN  IF n > 0 /\ piece[n] = 10
        THEN IF n > 1 /\ piece[n - 1] = 13 THEN SubSeq(piece, 1, n - 2)
             ELSE SubSeq(piece, 1, n - 1)
        ELSE piece

\* str::lines, collected: the input is cut after each "\n"
\* (split_inclusive), and what follows the last "\n", when not empty, is the
\* last line
lines(s) ==
    LET lfs == SelectSeq(Indices(s), LAMBDA i : s[i] = 10)
        n == Len(lfs) + (IF Len(s) > 0 /\ s[Len(s)] # 10 THEN 1 ELSE 0)
        first(k) == IF k = 1 THEN 1 ELSE lfs[k - 1] + 1
        last(k) == IF k <= Len(lfs) THEN lfs[k] ELSE Len(s)
    IN  [k \in 1..n |-> StripLine(SubSeq(s, first(k), last(k)))]

\* str::split_whitespace, collected: the maximal runs of characters that
\* are not whitespace, in order
split_whitespace(s) ==
    LET starts == SelectSeq(Indices(s), LAMBDA i :
                      ~is_whitespace(s[i]) /\ (i = 1 \/ is_whitespace(s[i - 1])))
        ends == SelectSeq(Indices(s), LAMBDA i :
                      ~is_whitespace(s[i]) /\ (i = Len(s) \/ is_whitespace(s[i + 1])))
    IN  [k \in 1..Len(starts) |-> SubSeq(s, starts[k], ends[k])]

\* a plausible slip: trim_start, only the leading whitespace removed
trim_start(s) ==
    LET keep == SelectSeq(Indices(s), LAMBDA i : ~is_whitespace(s[i]))
    IN  IF keep = <<>> THEN <<>> ELSE SubSeq(s, keep[1], Len(s))

\* str::trim: without its leading and trailing whitespace
trim(s) ==
    LET keep == SelectSeq(Indices(s), LAMBDA i : ~is_whitespace(s[i]))
    IN  IF keep = <<>> THEN <<>> ELSE SubSeq(s, keep[1], keep[Len(keep)])

\* a plausible slip: rfind, the index of the last colon
find_colon_last(line) ==
    LET at == {i \in 0..(Len(line) - 1) : line[i + 1] = 58}
    IN  IF at = {} THEN None ELSE Some(CHOOSE x \in at : \A y \in at : y <= x)

\* line.find(':'): the zero-based index of the first colon
find_colon(line) ==
    LET at == {i \in 0..(Len(line) - 1) : line[i + 1] = 58}
    IN  IF at = {} THEN None ELSE Some(Min(at))

---------------------------------------------------------------------------
(* method.rs: HttpMethod.  A method is one of the nine variant names; a   *)
(* Result<HttpMethod, InvalidHttpMethod> is [ok, m].                       *)

HttpMethod == {"GET", "POST", "PUT", "DELETE", "PATCH", "CONNECT", "OPTIONS",
               "TRACE", "HEAD"}

MethodOk(m) == [ok |-> TRUE, m |-> m]
InvalidHttpMethod == [ok |-> FALSE, m |-> "InvalidHttpMethod"]

\* HttpMethod::as_str
as_str(m) ==
    CASE m = "GET" -> <<71, 69, 84>>
      [] m = "POST" -> <<80, 79, 83, 84>>
      [] m = "PUT" -> <<80, 85, 84>>
      [] m = "DELETE" -> <<68, 69, 76, 69, 84, 69>>
      [] m = "PATCH" -> <<80, 65, 84, 67, 72>>
      [] m = "CONNECT" -> <<67, 79, 78, 78, 69, 67, 84>>
      [] m = "OPTIONS" -> <<79, 80, 84, 73, 79, 78, 83>>
      [] m = "TRACE" -> <<84, 82, 65, 67, 69>>
      [] m = "HEAD" -> <<72, 69, 65, 68>>

\* u8::to_ascii_uppercase, character by character
to_ascii_uppercase(s) ==
    [i \in 1..Len(s) |-> IF s[i] >= 97 /\ s[i] <= 122 THEN s[i] - 32 ELSE s[i]]

\* the match of TryFrom<&str>; the arms in the order of the source
MatchStr(value) ==
    CASE value = <<71, 69, 84>> -> MethodOk("GET")
      [] value = <<80, 79, 83, 84>> -> MethodOk("POST")
      [] value = <<80, 85, 84>> -> MethodOk("PUT")
      [] value = <<68, 69, 76, 69, 84, 69>> -> MethodOk("DELETE")
      [] value = <<80, 65, 84, 67, 72>> -> MethodOk("PATCH")
      [] value = <<72, 69, 65, 68>> -> MethodOk("HEAD")
      [] value = <<79, 80, 84, 73, 79, 78, 83>> -> MethodOk("OPTIONS")
      [] value = <<84, 82, 65, 67, 69>> -> MethodOk("TRACE")
      [] value = <<67, 79, 78, 78, 69, 67, 84>> -> MethodOk("CONNECT")
      [] OTHER -> InvalidHttpMethod

\* a plausible slip: the token is matched ignoring ASCII case
method_try_from_str_nocase(value) == MatchStr(to_ascii_uppercase(value))

\* impl TryFrom<&str> for HttpMethod
method_try_from_str(value) == MatchStr(value)

\* impl TryFrom<&[u8]> for HttpMethod; the arms in the order of the source
method_try_from_bytes(value) ==
    CASE value = <<71, 69, 84>> -> MethodOk("GET")
      [] value = <<80, 79, 83, 84>> -> MethodOk("POST")
      [] value = <<80, 85, 84>> -> MethodOk("PUT")
      [] value = <<68, 69, 76, 69, 84, 69>> -> MethodOk("DELETE")
      [] value = <<80, 65, 84, 67, 72>> -> MethodOk("PATCH")
      [] value = <<72, 69, 65, 68>> -> MethodOk("HEAD")
      [] value = <<79, 80, 84, 73, 79, 78, 83>> -> MethodOk("OPTIONS")
      [] value = <<84, 82, 65, 67, 69>> -> MethodOk("TRACE")
      [] value = <<67, 79, 78, 78, 69, 67, 84>> -> MethodOk("CONNECT")
      [] OTHER -> InvalidHttpMethod

---------------------------------------------------------------------------
(* heapless::Vec<T, N>: push and extend_from_slice fail, leaving the        *)
(* vector as it was, when the capacity n would be exceeded.                 *)

\* a plausible slip: the capacity test is off by one
VecPushLoose(vec, n, item) ==
    IF Len(vec) <= n THEN [ok |-> TRUE, vec |-> Append(vec, item)]
    ELSE [ok |-> FALSE, vec |-> vec]

VecPush(vec, n, item) ==
    IF Len(vec) < n THEN [ok |-> TRUE, vec |-> Append(vec, item)]
    ELSE [ok |-> FALSE, vec |-> vec]

VecExtend(vec, n, other) ==
    IF Len(vec) + Len(other) > n THEN [ok |-> FALSE, vec |-> vec]
    ELSE [ok |-> TRUE, vec |-> vec \o other]

---------------------------------------------------------------------------
(* request.rs: HttpRequest::parse_from and TryFrom<&[u8]>.  A              *)
(* Result<HttpRequest, Error> is a record whose err is "" for Ok and the    *)
(* message of Error::InvalidResponse otherwise.                             *)

MAX_HEADERS == 16

HttpHeader(name, value) == [name |-> name, value |-> value]

Ok(method, path, version, headers, body) ==
    [err |-> "", method |-> method, path |-> path, version |-> version,
     headers |-> headers, body |-> body]

Err(msg) ==
    [err |-> msg, method |-> "", path |-> <<>>, version |-> <<>>,
     headers |-> <<>>, body |-> <<>>]

RECURSIVE HeaderLoopNoBreak(_, _, _)
\* a plausible slip: an empty line is skipped instead of ending the loop
HeaderLoopNoBreak(ls, i, headers) ==
    IF i > Len(ls) THEN [ok |-> TRUE, vec |-> headers]
    ELSE LET line == ls[i]
             colon_pos == find_colon(line)
         IN  IF colon_pos.some
             THEN LET name == trim(Slice(line, 0, colon_pos.v))
                      value == trim(SliceFrom(line, colon_pos.v + 1))
                      pushed == VecPush(headers, MAX_HEADERS, HttpHeader(name, value))
                  IN  IF pushed.ok THEN HeaderLoopNoBreak(ls, i + 1, pushed.vec)
                      ELSE [ok |-> FALSE, vec |-> headers]
             ELSE HeaderLoopNoBreak(ls, i + 1, headers)

RECURSIVE HeaderLoop(_, _, _)
\* the for loop over the lines after the request line: [ok, headers]
HeaderLoop(ls, i, headers) ==
    IF i > Len(ls) THEN [ok |-> TRUE, vec |-> headers]
    ELSE IF ls[i] = <<>> THEN [ok |-> TRUE, vec |-> headers]
    ELSE LET line == ls[i]
             colon_pos == find_colon(line)
         IN  IF colon_pos.some
             THEN LET name == trim(Slice(line, 0, colon_pos.v))
                      value == trim(SliceFrom(line, colon_pos.v + 1))
                      pushed == VecPush(headers, MAX_HEADERS, HttpHeader(name, value))
                  IN  IF pushed.ok THEN HeaderLoop(ls, i + 1, pushed.vec)
                      ELSE [ok |-> FALSE, vec |-> headers]
             ELSE HeaderLoop(ls, i + 1, headers)

\* a plausible slip: an empty first line is taken for a missing request line
parse_from_empty_line_missing(hs, body) ==
    LET ls == lines(hs)
    IN  IF ls = <<>> \/ ls[1] = <<>> THEN Err("Missing request line")
        ELSE LET parts == split_whitespace(ls[1])
             IN  IF Len(parts) < 2 THEN Err("Missing path")
                 ELSE IF Len(parts) < 3 THEN Err("Missing version")
                 ELSE LET method == method_try_from_str(parts[1])
                      IN  IF ~method.ok THEN Err("Unknown HTTP method")
                          ELSE LET hl == HeaderLoop(ls, 2, <<>>)
                               IN  IF ~hl.ok THEN Err("Too many headers")
                                   ELSE Ok(method.m, parts[2], parts[3], hl.vec, body)

\* HttpRequest::parse_from(headers_str, body)
parse_from(hs, body) ==
    LET ls == lines(hs)
    IN  IF ls = <<>> THEN Err("Missing request line")
        ELSE LET parts == split_whitespace(ls[1])
             IN  IF Len(parts) < 1 THEN Err("Missing method")
                 ELSE IF Len(parts) < 2 THEN Err("Missing path")
                 ELSE IF Len(parts) < 3 THEN Err("Missing version")
                 ELSE LET method == method_try_from_str(parts[1])
                      IN  IF ~method.ok THEN Err("Unknown HTTP method")
                          ELSE LET hl == HeaderLoop(ls, 2, <<>>)
                               IN  IF ~hl.ok THEN Err("Too many headers")
                                   ELSE Ok(method.m, parts[2], parts[3], hl.vec, body)

\* a plausible slip: the whole buffer is validated as UTF-8, body included
try_from_validates_body(buf) ==
    LET e == find_double_crlf(buf)
    IN  IF ~e.some THEN Err("Incomplete request headers")
        ELSE IF ~from_utf8(buf).ok THEN Err("Invalid UTF-8 in request")
        ELSE parse_from(from_utf8(Slice(buf, 0, e.v)).s, SliceFrom(buf, e.v + 4))

\* impl TryFrom<&[u8]> for HttpRequest
try_from(buf) ==
    LET e == find_double_crlf(buf)
    IN  IF ~e.some THEN Err("Incomplete request headers")
        ELSE LET u == from_utf8(Slice(buf, 0, e.v))
             IN  IF ~u.ok THEN Err("Invalid UTF-8 in request")
                 ELSE parse_from(u.s, SliceFrom(buf, e.v + 4))

---------------------------------------------------------------------------
(* Values the variables hold while another part of the codec is exercised. *)

NoRequest == Err("not parsed")
NoMethod == [str |-> InvalidHttpMethod, bytes |-> InvalidHttpMethod]
NoResponse == [status_code |-> "Ok", headers |-> <<>>,
               body |-> [kind |-> "Empty", data |-> <<>>]]
NoOriginal == [method |-> "GET", path |-> <<>>, version |-> <<>>,
               headers |-> <<>>, body |-> <<>>]

---------------------------------------------------------------------------
(* Spec: one connection's read loop.  Each read appends the bytes that      *)
(* arrived to the buffer, and the full-message parser runs on what has      *)
(* accumulated (spec 4.5).                                                  *)

MaxReads == 6

\* what one read may deliver
Chunks == { <<71, 69, 84, 32, 47, 32, 72, 84, 84, 80, 47, 49, 46, 49>>,   \* "GET / HTTP/1.1"
            <<13>>, <<10>>, <<13, 10>>,
            <<255>>,
            <<107, 58, 32, 118>> }                             \* "k: v"

IdleRead == buffer = <<>> /\ reads = 0 /\ end_of_headers = None
IdleParse == headers_str = <<>>
IdleMethod == method_in = <<>> /\ method_out = NoMethod
IdleBuild == response = NoResponse /\ capacity = 0 /\ bytes = <<>>
IdleClient == original = NoOriginal
IdleLookup == query = <<>> /\ lookup = None
IdleDecimal == num_in = <<0, 0, 0, 0>> /\ panicked = FALSE
IdleHandler == handled = [err |-> "not handled", response |-> NoResponse]

Init ==
    /\ buffer = <<>>
    /\ reads = 0
    /\ end_of_headers = find_double_crlf(<<>>)
    /\ request = try_from(<<>>)
    /\ IdleParse /\ IdleMethod /\ IdleBuild /\ IdleClient /\ IdleLookup /\ IdleDecimal /\ IdleHandler

Read(chunk) ==
    /\ reads < MaxReads
    /\ reads' = reads + 1
    /\ buffer' = buffer \o chunk
    /\ end_of_headers' = find_double_crlf(buffer')
    /\ request' = try_from(buffer')
    /\ UNCHANGED <<headers_str, method_in, method_out, response, capacity, bytes,
                   original,
                   query, lookup, num_in, panicked, handled>>

Next == \E chunk \in Chunks : Read(chunk)

Spec == Init /\ [][Next]_vars

---------------------------------------------------------------------------
(* Properties of the read loop.                                            *)

\* bytes i..i+4 (zero-based) of data are CR LF CR LF
SeparatorAt(data, i) ==
    /\ i + 4 <= Len(data)
    /\ data[i + 1] = 13 /\ data[i + 2] = 10 /\ data[i + 3] = 13 /\ data[i + 4] = 10

\* i is the smallest index at which a separator lies
FirstSeparatorAt(data, i) ==
    SeparatorAt(data, i) /\ \A j \in 0..(i - 1) : ~SeparatorAt(data, j)

NoSeparator(data) == \A i \in 0..Len(data) : ~SeparatorAt(data, i)

\* C1: find_double_crlf returns the smallest index at which CR LF CR LF lies,
\* and None exactly when there is none (so for every buffer under 4 bytes);
\* try_from fails with "Incomplete request headers" exactly in that case.
C1_FirstSeparator ==
    /\ \A i \in 0..Len(buffer) :
          (end_of_headers = Some(i)) <=> FirstSeparatorAt(buffer, i)
    /\ (end_of_headers = None) <=> NoSeparator(buffer)
    /\ Len(buffer) < 4 => end_of_headers = None
    /\ (request.err = "Incomplete request headers") <=> NoSeparator(buffer)

\* a separator that occupies the last four bytes of a longer buffer is found
C1_Witness ==
    /\ Len(buffer) > 4
    /\ SeparatorAt(buffer, Len(buffer) - 4)
    /\ end_of_headers = Some(Len(buffer) - 4)
    /\ request.err # "Incomplete request headers"

\* C2: with the first separator at i, try_from fails with "Invalid UTF-8 in
\* request" exactly when the bytes before i are not valid UTF-8; a request it
\* returns has for body the bytes after the separator, verbatim; and apart
\* from the body the outcome is that of the bytes before i alone.
C2_Utf8OnlyBeforeSeparator ==
    \A i \in 0..Len(buffer) :
        FirstSeparatorAt(buffer, i) =>
            LET head == SubSeq(buffer, 1, i)
                tail == SubSeq(buffer, i + 5, Len(buffer))
            IN  /\ (request.err = "Invalid UTF-8 in request") <=> ~from_utf8(head).ok
                /\ request.err = "" => request.body = tail
                /\ from_utf8(head).ok =>
                      [request EXCEPT !.body = <<>>] = parse_from(from_utf8(head).s, <<>>)

\* a request parsed although its body is not valid UTF-8
C2_Witness ==
    /\ request.err = ""
    /\ request.body # <<>>
    /\ ~from_utf8(request.body).ok

---------------------------------------------------------------------------
(* SpecMethod: a method token is typed character by character and handed   *)
(* to both HttpMethod parsers, and to parse_from as the first word of a     *)
(* request line.  The token follows the spelling of a method for a while    *)
(* and then goes on with up to MaxTail other characters.                    *)

MaxTail == 3

\* "T", "g", "e", "t", " ", U+00E9
OtherChars == {84, 103, 101, 116, 32, 233}

REST_OF_LINE == <<32, 47, 32, 72, 84, 84, 80, 47, 49, 46, 49>>   \* " / HTTP/1.1"

IsPrefix(p, s) == Len(p) <= Len(s) /\ SubSeq(s, 1, Len(p)) = p

\* how much of the token spells the beginning of some method
SpelledLen(token) ==
    CHOOSE k \in 0..Len(token) :
        /\ \E m \in HttpMethod : IsPrefix(SubSeq(token, 1, k), as_str(m))
        /\ \A j \in (k + 1)..Len(token) :
              \A m \in HttpMethod : ~IsPrefix(SubSeq(token, 1, j), as_str(m))

ParseToken(token) ==
    /\ method_in' = token
    /\ method_out' = [str |-> method_try_from_str(token),
                      bytes |-> method_try_from_bytes(as_bytes(token))]
    /\ request' = parse_from(token \o REST_OF_LINE, <<>>)
    /\ UNCHANGED <<buffer, reads, end_of_headers, headers_str, response,
                   capacity, bytes, original,
                   query, lookup, num_in, panicked, handled>>

InitMethod ==
    /\ method_in = <<>>
    /\ method_out = [str |-> method_try_from_str(<<>>),
                     bytes |-> method_try_from_bytes(<<>>)]
    /\ request = parse_from(REST_OF_LINE, <<>>)
    /\ IdleRead /\ IdleParse /\ IdleBuild /\ IdleClient /\ IdleLookup /\ IdleDecimal /\ IdleHandler

\* the next character of method m's spelling
TypeSpelled(m) ==
    /\ IsPrefix(method_in, as_str(m))
    /\ Len(method_in) < Len(as_str(m))
    /\ ParseToken(Append(method_in, as_str(m)[Len(method_in) + 1]))

\* some other character
TypeOther(c) ==
    /\ Len(method_in) - SpelledLen(method_in) < MaxTail
    /\ ParseToken(Append(method_in, c))

NextMethod ==
    \/ \E m \in HttpMethod : TypeSpelled(m)
    \/ \E c \in OtherChars : TypeOther(c)

SpecMethod == InitMethod /\ [][NextMethod]_vars

\* C4: try_from(s) is Ok(m) exactly when s is m.as_str(), and is
\* Err(InvalidHttpMethod) otherwise; the &str and the &[u8] parser agree; and
\* parse_from fails with "Unknown HTTP method" on a request line whose first
\* word is such a token.
C4_ExactMatch ==
    /\ \A m \in HttpMethod :
          (method_out.str = MethodOk(m)) <=> (method_in = as_str(m))
    /\ (\A m \in HttpMethod : method_in # as_str(m)) =>
          method_out.str = InvalidHttpMethod
    /\ method_out.bytes = method_out.str
    /\ (method_in # <<>> /\ \A i \in 1..Len(method_in) : ~is_whitespace(method_in[i])) =>
          ((request.err = "Unknown HTTP method")
              <=> (\A m \in HttpMethod : method_in # as_str(m)))

\* "get" is rejected by both parsers and by parse_from
C4_Witness ==
    /\ method_in = <<103, 101, 116>>
    /\ method_out.str = InvalidHttpMethod
    /\ method_out.bytes = InvalidHttpMethod
    /\ request.err = "Unknown HTTP method"

---------------------------------------------------------------------------
(* SpecReqLine: parse_from on header blocks put together from a few words,  *)
(* blanks and line ends, up to MaxRequestLine characters.                   *)

MaxRequestLine == 7

\* "GET", "/", " ", "\n", "\r"
LinePieces == {<<71, 69, 84>>, <<47>>, <<32>>, <<10>>, <<13>>}

\* the body span handed to parse_from beside the header block
BODY == <<0, 255>>

Extend(piece) ==
    /\ headers_str' = headers_str \o piece
    /\ request' = parse_from(headers_str', BODY)
    /\ UNCHANGED <<buffer, reads, end_of_headers, method_in, method_out,
                   response, capacity, bytes, original, query, lookup, num_in, panicked, handled>>

InitReqLine ==
    /\ headers_str = <<>>
    /\ request = parse_from(<<>>, BODY)
    /\ IdleRead /\ IdleMethod /\ IdleBuild /\ IdleClient /\ IdleLookup /\ IdleDecimal /\ IdleHandler

AppendPiece(piece) ==
    /\ Len(headers_str) + Len(piece) <= MaxRequestLine
    /\ Extend(piece)

NextReqLine == \E piece \in LinePieces : AppendPiece(piece)

SpecReqLine == InitReqLine /\ [][NextReqLine]_vars

\* the characters before the first line feed
FirstLine(s) ==
    LET lf == {i \in 1..Len(s) : s[i] = 10}
    IN  IF lf = {} THEN s ELSE SubSeq(s, 1, Min(lf) - 1)

\* where the words of a line begin
WordStarts(line) ==
    {i \in 1..Len(line) :
        ~is_whitespace(line[i]) /\ (i = 1 \/ is_whitespace(line[i - 1]))}

\* C3: empty input fails with "Missing request line"; otherwise a first line
\* of no word fails with "Missing method", of one word with "Missing path",
\* of two words with "Missing version", and no other input gives these.
C3_MissingParts ==
    LET words == Cardinality(WordStarts(FirstLine(headers_str)))
    IN  /\ (request.err = "Missing request line") <=> (headers_str = <<>>)
        /\ (request.err = "Missing method") <=> (headers_str # <<>> /\ words = 0)
        /\ (request.err = "Missing path") <=> (headers_str # <<>> /\ words = 1)
        /\ (request.err = "Missing version") <=> (headers_str # <<>> /\ words = 2)

\* a first line of blanks only, followed by a complete request line
C3_Witness ==
    /\ Len(headers_str) > 2
    /\ headers_str[1] = 32 /\ headers_str[2] = 10
    /\ request.err = "Missing method"

---------------------------------------------------------------------------
(* SpecParse: parse_from on a fixed request line followed by a header       *)
(* block typed character by character, up to MaxHeaderBlock characters.     *)

MaxHeaderBlock == 6

REQUEST_LINE == <<71, 69, 84, 32, 47, 32, 72, 84, 84, 80, 47, 49, 46, 49>>   \* "GET / HTTP/1.1"

\* "a", ":", " ", "\n", "\r"
HeaderChars == {97, 58, 32, 10, 13}

InitParse ==
    /\ headers_str = REQUEST_LINE
    /\ request = parse_from(REQUEST_LINE, BODY)
    /\ IdleRead /\ IdleMethod /\ IdleBuild /\ IdleClient /\ IdleLookup /\ IdleDecimal /\ IdleHandler

AppendChar(c) ==
    /\ Len(headers_str) < Len(REQUEST_LINE) + MaxHeaderBlock
    /\ Extend(<<c>>)

NextParse == \E c \in HeaderChars : AppendChar(c)

SpecParse == InitParse /\ [][NextParse]_vars

HasColon(line) == \E i \in 1..Len(line) : line[i] = 58

\* the one-based index of the first colon of a line that has one
FirstColon(line) ==
    CHOOSE i \in 1..Len(line) :
        line[i] = 58 /\ \A j \in 1..(i - 1) : line[j] # 58

\* the lines after the request line, up to the first empty one
HeaderLines(s) ==
    LET rest == Tail(lines(s))
        empty == {i \in 1..Len(rest) : rest[i] = <<>>}
    IN  IF empty = {} THEN rest ELSE SubSeq(rest, 1, Min(empty) - 1)

\* the header a line with a colon stands for
HeaderOf(line) ==
    [name |-> trim(SubSeq(line, 1, FirstColon(line) - 1)),
     value |-> trim(SubSeq(line, FirstColon(line) + 1, Len(line)))]

\* the headers the block stands for, in the order of their lines
ExpectedHeaders(s) ==
    LET with == SelectSeq(HeaderLines(s), HasColon)
    IN  [i \in 1..Len(with) |-> HeaderOf(with[i])]

\* C5: after a valid request line, the headers of the parsed request are
\* those of the lines with a colon that come before the first empty line, one
\* per line and in line order, each split at its first colon and trimmed;
\* lines without a colon are skipped and cause no error.
C5_HeaderLines ==
    /\ request.err = ""
    /\ request.headers = ExpectedHeaders(headers_str)
    /\ request.body = BODY

\* a header, then an empty line, then a line with a colon that is ignored
C5_Witness ==
    /\ Len(request.headers) = 1
    /\ request.headers[1] = HttpHeader(<<>>, <<97>>)
    /\ Len(lines(headers_str)) = 4
    /\ lines(headers_str)[3] = <<>>
    /\ HasColon(lines(headers_str)[4])

---------------------------------------------------------------------------
(* SpecHeaders: parse_from on a request line followed by up to MaxLines     *)
(* lines, of which at most MaxOddLines are empty or without a colon.        *)

MaxLines == 18
MaxOddLines == 1

CRLF == <<13, 10>>
COLON_LINE == <<107, 58, 32, 118>> \o CRLF   \* "k: v\r\n"
PLAIN_LINE == <<120>> \o CRLF                 \* "x\r\n"

\* the lines after the request line, all of them
BlockLines(s) == Tail(lines(s))

OddLines(s) ==
    LET block == BlockLines(s)
    IN  {i \in 1..Len(block) : ~HasColon(block[i])}

InitHeaders ==
    /\ headers_str = REQUEST_LINE \o CRLF
    /\ request = parse_from(REQUEST_LINE \o CRLF, BODY)
    /\ IdleRead /\ IdleMethod /\ IdleBuild /\ IdleClient /\ IdleLookup /\ IdleDecimal /\ IdleHandler

AppendHeaderLine ==
    /\ Len(BlockLines(headers_str)) < MaxLines
    /\ Extend(COLON_LINE)

AppendOddLine(line) ==
    /\ Len(BlockLines(headers_str)) < MaxLines
    /\ Cardinality(OddLines(headers_str)) < MaxOddLines
    /\ Extend(line)

NextHeaders ==
    \/ AppendHeaderLine
    \/ \E line \in {PLAIN_LINE, CRLF} : AppendOddLine(line)

SpecHeaders == InitHeaders /\ [][NextHeaders]_vars

\* how many lines with a colon come before the first empty line
ColonLines(s) == Len(SelectSeq(HeaderLines(s), HasColon))

\* C6: with n lines that hold a colon before the first empty line, parse_from
\* returns a request of exactly n headers when n <= 16 and fails with "Too
\* many headers", returning no request, when n >= 17; lines without a colon
\* do not count, and no request holds more than 16 headers.
C6_HeaderLimit ==
    LET n == ColonLines(headers_str)
    IN  /\ n <= 16 => (request.err = "" /\ Len(request.headers) = n)
        /\ n >= 17 => request = Err("Too many headers")
        /\ Len(request.headers) <= 16

\* seventeen lines with a colon and one without: the parse fails
C6_Witness ==
    /\ ColonLines(headers_str) = 17
    /\ LET block == BlockLines(headers_str)
       IN  \E i \in 1..Len(block) : block[i] = <<120>>
    /\ request.err = "Too many headers"

---------------------------------------------------------------------------
(* response.rs: ResponseBody, HttpResponse::build_bytes, write_status_line, *)
(* write_decimal_to_buffer.  A ResponseBody is [kind, data]: data is a      *)
(* string for Text, a byte span for Binary and empty for Empty.  An         *)
(* HttpResponse is [status_code, headers, body].                            *)

\* StatusCode::as_u16
as_u16(status_code) ==
    CASE status_code = "Ok" -> 200
      [] status_code = "Created" -> 201
      [] status_code = "NoContent" -> 204
      [] status_code = "NotFound" -> 404
      [] status_code = "InternalServerError" -> 500

\* StatusCode::text
text(status_code) ==
    CASE status_code = "Ok" -> <<79, 75>>
      [] status_code = "Created" -> <<67, 114, 101, 97, 116, 101, 100>>
      [] status_code = "NoContent" -> <<78, 111, 32, 67, 111, 110, 116, 101, 110, 116>>
      [] status_code = "NotFound" -> <<78, 111, 116, 32, 70, 111, 117, 110, 100>>
      [] status_code = "InternalServerError" ->
            <<73, 110, 116, 101, 114, 110, 97, 108, 32, 83, 101, 114, 118, 101, 114, 32, 69, 114, 114, 111, 114>>

\* ResponseBody::as_bytes
body_as_bytes(body) ==
    CASE body.kind = "Text" -> as_bytes(body.data)
      [] body.kind = "Binary" -> body.data
      [] body.kind = "Empty" -> <<>>

\* the length of the scratch array of write_decimal_to_buffer
DIGITS_LEN == 10

\* A usize of the 64-bit target is four 16-bit limbs, the most significant
\* first, so that every value up to 2^64 - 1 is computed exactly.
LIMB == 65536

\* usize::MAX
USIZE_MAX == <<LIMB - 1, LIMB - 1, LIMB - 1, LIMB - 1>>

\* `as usize` of a length or a status code below 2^31
as_usize(k) == <<0, 0, k \div LIMB, k % LIMB>>

\* num / 10 and num % 10, by long division over the limbs
DivMod10(num) ==
    LET c1 == num[1]
        c2 == (c1 % 10) * LIMB + num[2]
        c3 == (c2 % 10) * LIMB + num[3]
        c4 == (c3 % 10) * LIMB + num[4]
    IN  [q |-> <<c1 \div 10, c2 \div 10, c3 \div 10, c4 \div 10>>, r |-> c4 % 10]

RECURSIVE DigitLoop(_, _, _)
\* while num > 0 { digits[i] = (num % 10) as u8 + b'0'; num /= 10; i += 1 }
\* An index outside the array panics.
DigitLoop(num, digits, i) ==
    IF num # <<0, 0, 0, 0>>
    THEN IF i >= DIGITS_LEN THEN [panic |-> TRUE, digits |-> digits, i |-> i]
         ELSE DigitLoop(DivMod10(num).q,
                        [digits EXCEPT ![i + 1] = DivMod10(num).r + 48], i + 1)
    ELSE [panic |-> FALSE, digits |-> digits, i |-> i]

RECURSIVE PushDigits(_, _, _, _)
\* for j in (0..i).rev() { let _ = bytes.push(digits[j]); }
PushDigits(vec, n, digits, j) ==
    IF j < 0 THEN vec
    ELSE PushDigits(VecPush(vec, n, digits[j + 1]).vec, n, digits, j - 1)

RECURSIVE PushDigitsForward(_, _, _, _)
PushDigitsForward(vec, n, digits, j) ==
    IF j < 0 THEN vec
    ELSE VecPush(PushDigitsForward(vec, n, digits, j - 1), n, digits[j + 1]).vec

\* a plausible slip: the digits are written in the order they were computed,
\* least significant first
write_decimal_unreversed(vec, n, num) ==
    IF num = <<0, 0, 0, 0>> THEN [panic |-> FALSE, vec |-> VecPush(vec, n, 48).vec]
    ELSE LET loop == DigitLoop(num, [k \in 1..DIGITS_LEN |-> 0], 0)
         IN  IF loop.panic THEN [panic |-> TRUE, vec |-> vec]
             ELSE [panic |-> FALSE,
                   vec |-> PushDigitsForward(vec, n, loop.digits, loop.i - 1)]

\* write_decimal_to_buffer(bytes, num), bytes of capacity n: [panic, vec]
write_decimal_to_buffer(vec, n, num) ==
    IF num = <<0, 0, 0, 0>> THEN [panic |-> FALSE, vec |-> VecPush(vec, n, 48).vec]
    ELSE LET loop == DigitLoop(num, [k \in 1..DIGITS_LEN |-> 0], 0)
         IN  IF loop.panic THEN [panic |-> TRUE, vec |-> vec]
             ELSE [panic |-> FALSE,
                   vec |-> PushDigits(vec, n, loop.digits, loop.i - 1)]

HTTP_1_1 == <<72, 84, 84, 80, 47, 49, 46, 49, 32>>   \* "HTTP/1.1 "
CONTENT_LENGTH_PREFIX ==
    <<67, 111, 110, 116, 101, 110, 116, 45, 76, 101, 110, 103, 116, 104, 58, 32>>
COLON_SPACE == <<58, 32>>

\* write_status_line(bytes, status_code), bytes of capacity n
write_status_line(vec, n, status_code) ==
    LET b1 == VecExtend(vec, n, HTTP_1_1).vec
        b2 == write_decimal_to_buffer(b1, n, as_usize(as_u16(status_code))).vec
        b3 == VecPush(b2, n, 32).vec
        b4 == VecExtend(b3, n, as_bytes(text(status_code))).vec
    IN  VecExtend(b4, n, CRLF).vec

RECURSIVE WriteHeaders(_, _, _, _)
\* for header in &self.headers { ... }, from the i-th header on
WriteHeaders(vec, n, headers, i) ==
    IF i > Len(headers) THEN vec
    ELSE LET b1 == VecExtend(vec, n, as_bytes(headers[i].name)).vec
             b2 == VecExtend(b1, n, COLON_SPACE).vec
             b3 == VecExtend(b2, n, as_bytes(headers[i].value)).vec
             b4 == VecExtend(b3, n, CRLF).vec
         IN  WriteHeaders(b4, n, headers, i + 1)

\* a plausible slip: the length header is written for every body that is not
\* the Empty variant, an empty Text or Binary included
build_bytes_by_variant(resp, n) ==
    LET b1 == write_status_line(<<>>, n, resp.status_code)
        b2 == WriteHeaders(b1, n, resp.headers, 1)
        body_bytes == body_as_bytes(resp.body)
        b3 == IF resp.body.kind # "Empty"
              THEN LET c1 == VecExtend(b2, n, CONTENT_LENGTH_PREFIX).vec
                       c2 == write_decimal_to_buffer(c1, n, as_usize(Len(body_bytes))).vec
                   IN  VecExtend(c2, n, CRLF).vec
              ELSE b2
        b4 == VecExtend(b3, n, CRLF).vec
    IN  VecExtend(b4, n, body_bytes).vec

\* HttpResponse::build_bytes::<n>.  No body here is 10^10 bytes long, so
\* write_decimal_to_buffer does not panic on its length.
build_bytes(resp, n) ==
    LET b1 == write_status_line(<<>>, n, resp.status_code)
        b2 == WriteHeaders(b1, n, resp.headers, 1)
        body_bytes == body_as_bytes(resp.body)
        b3 == IF body_bytes # <<>>
              THEN LET c1 == VecExtend(b2, n, CONTENT_LENGTH_PREFIX).vec
                       c2 == write_decimal_to_buffer(c1, n, as_usize(Len(body_bytes))).vec
                   IN  VecExtend(c2, n, CRLF).vec
              ELSE b2
        b4 == VecExtend(b3, n, CRLF).vec
    IN  VecExtend(b4, n, body_bytes).vec

---------------------------------------------------------------------------
(* SpecBuild: a response is put together field by field, and build_bytes    *)
(* with the output capacity of the build is applied to every response so    *)
(* obtained.  The capacity is a const generic: it is fixed from the start.  *)

MaxCapacity == 100
MaxResponseHeaders == 2

Statuses == {"Ok", "NoContent", "NotFound"}

\* "A: b", "Content-Length: 12", "X: "
HeaderChoices ==
    { HttpHeader(<<65>>, <<98>>),
      HttpHeader(<<67, 111, 110, 116, 101, 110, 116, 45, 76, 101, 110, 103, 116, 104>>,
                 <<49, 50>>),
      HttpHeader(<<88>>, <<>>) }

\* Empty, Text(""), Binary(b""), Text("\u{e9}"), Binary(b"Hello World\xff")
Bodies ==
    { [kind |-> "Empty", data |-> <<>>],
      [kind |-> "Text", data |-> <<>>],
      [kind |-> "Binary", data |-> <<>>],
      [kind |-> "Text", data |-> <<233>>],
      [kind |-> "Binary", data |-> <<72, 101, 108, 108, 111, 32, 87, 111, 114, 108, 100>> \o <<255>>] }

Rebuild(resp) ==
    /\ response' = resp
    /\ bytes' = build_bytes(resp, capacity)
    /\ UNCHANGED <<buffer, reads, end_of_headers, request, headers_str,
                   method_in, method_out, capacity, original,
                   query, lookup, num_in, panicked, handled>>

InitBuild ==
    /\ capacity \in 0..MaxCapacity
    /\ response = NoResponse
    /\ bytes = build_bytes(NoResponse, capacity)
    /\ request = NoRequest
    /\ IdleRead /\ IdleParse /\ IdleMethod /\ IdleClient /\ IdleLookup /\ IdleDecimal /\ IdleHandler

SetStatus(status_code) ==
    Rebuild([response EXCEPT !.status_code = status_code])

PushHeader(header) ==
    /\ Len(response.headers) < MaxResponseHeaders
    /\ Rebuild([response EXCEPT !.headers = VecPush(@, MAX_HEADERS, header).vec])

SetBody(body) ==
    Rebuild([response EXCEPT !.body = body])

NextBuild ==
    \/ \E status_code \in Statuses : SetStatus(status_code)
    \/ \E header \in HeaderChoices : PushHeader(header)
    \/ \E body \in Bodies : SetBody(body)

SpecBuild == InitBuild /\ [][NextBuild]_vars

---------------------------------------------------------------------------
(* Properties of build_bytes.                                               *)

RECURSIVE Decimal(_)
\* the decimal numeral of n, most significant digit first
Decimal(n) == IF n < 10 THEN <<48 + n>> ELSE Decimal(n \div 10) \o <<48 + (n % 10)>>

RECURSIVE HeaderBlock(_, _)
\* "name: value\r\n" for the i-th header and those after it
HeaderBlock(headers, i) ==
    IF i > Len(headers) THEN <<>>
    ELSE as_bytes(headers[i].name) \o <<58, 32>> \o as_bytes(headers[i].value)
         \o <<13, 10>> \o HeaderBlock(headers, i + 1)

\* "Content-Length: <len>\r\n" for a body that is not empty
LengthLine(body_bytes) ==
    IF body_bytes = <<>> THEN <<>>
    ELSE CONTENT_LENGTH_PREFIX \o Decimal(Len(body_bytes)) \o <<13, 10>>

\* the whole message of a response
Message(resp) ==
    HTTP_1_1 \o Decimal(as_u16(resp.status_code)) \o <<32>>
    \o as_bytes(text(resp.status_code)) \o <<13, 10>>
    \o HeaderBlock(resp.headers, 1)
    \o LengthLine(body_as_bytes(resp.body))
    \o <<13, 10>>
    \o body_as_bytes(resp.body)

Fits == Len(Message(response)) <= capacity

\* C7: when the whole message fits the output buffer, build_bytes returns
\* exactly the status line, the headers in collection order, the
\* Content-Length line if the body is not empty, a blank line and the body.
C7_ExactMessage == Fits => bytes = Message(response)

\* a complete message of two headers and a body of twelve bytes
C7_Witness ==
    /\ Fits
    /\ Len(response.headers) = 2
    /\ response.headers[1] # response.headers[2]
    /\ Len(body_as_bytes(response.body)) = 12
    /\ bytes = Message(response)

CONTENT_LENGTH == <<67, 111, 110, 116, 101, 110, 116, 45, 76, 101, 110, 103, 116, 104>>

\* the zero-based offsets at which needle lies in hay
Occurrences(hay, needle) ==
    {i \in 0..(Len(hay) - Len(needle)) : SubSeq(hay, i + 1, i + Len(needle)) = needle}

\* how many times "Content-Length" is written in the header collection
InOwnHeaders(resp) ==
    LET count(h) == Cardinality(Occurrences(as_bytes(h.name), CONTENT_LENGTH))
                    + Cardinality(Occurrences(as_bytes(h.value), CONTENT_LENGTH))
    IN  IF Len(resp.headers) = 0 THEN 0
        ELSE IF Len(resp.headers) = 1 THEN count(resp.headers[1])
        ELSE IF Len(resp.headers) = 2
             THEN count(resp.headers[1]) + count(resp.headers[2])
        ELSE count(resp.headers[1]) + count(resp.headers[2]) + count(resp.headers[3])

\* the output, without the body bytes at its end, holds the header line
\* "Content-Length: <byte length of the body>"
CarriesLength ==
    LET body_bytes == body_as_bytes(response.body)
        head == SubSeq(bytes, 1, Len(bytes) - Len(body_bytes))
    IN  Occurrences(head, <<13, 10>> \o CONTENT_LENGTH_PREFIX
                          \o Decimal(Len(body_bytes)) \o <<13, 10>>) # {}

\* C8 as stated: in a complete message a body that is not empty comes with
\* a Content-Length line of its byte length, and with an empty body
\* "Content-Length" is nowhere in the output.
C8_AsStated ==
    Fits =>
        /\ body_as_bytes(response.body) # <<>> => CarriesLength
        /\ body_as_bytes(response.body) = <<>> =>
              Occurrences(bytes, CONTENT_LENGTH) = {}

\* C8, amended: in a complete message a body that is not empty comes with a
\* Content-Length line of its byte length; with an empty body build_bytes
\* adds none, so that "Content-Length" is in the output only as often as the
\* response's own headers hold it.
C8_NoLengthAdded ==
    Fits =>
        /\ body_as_bytes(response.body) # <<>> => CarriesLength
        /\ body_as_bytes(response.body) = <<>> =>
              Cardinality(Occurrences(bytes, CONTENT_LENGTH)) = InOwnHeaders(response)

\* an empty Text body under headers that do not mention Content-Length
C8_Witness ==
    /\ Fits
    /\ response.body = [kind |-> "Text", data |-> <<>>]
    /\ Len(response.headers) = 2
    /\ InOwnHeaders(response) = 0
    /\ Occurrences(bytes, CONTENT_LENGTH) = {}

HeaderSeqs == UNION {[1..k -> HeaderChoices] : k \in 0..MaxResponseHeaders}

Responses == [status_code : Statuses, headers : HeaderSeqs, body : Bodies]

\* C9: when the whole message does not fit the output buffer, what
\* build_bytes returns is not the complete message of any response: the
\* caller can tell it from a complete one.
C9_OverflowSurfaced ==
    ~Fits => \A r \in Responses : bytes # Message(r)

---------------------------------------------------------------------------
(* SpecRoundTrip: a client's request is put together field by field; each   *)
(* request so obtained is written in the HTTP/1.1 wire format (spec 6) and  *)
(* the bytes are parsed with try_from.                                      *)

MaxRequestHeaders == 2

WireMethods == {"GET", "POST", "OPTIONS"}

\* "", "/", "/a b", "/\u{e9}"
WirePaths == {<<>>, <<47>>, <<47, 97, 32, 98>>, <<47, 233>>}

\* "", "HTTP/1.1"
WireVersions == {<<>>, <<72, 84, 84, 80, 47, 49, 46, 49>>}

\* "k: v", ": ", "a: b:c d", " k: v", "k:x: v", "k: v\r\n"
WireHeaders ==
    { HttpHeader(<<107>>, <<118>>),
      HttpHeader(<<>>, <<>>),
      HttpHeader(<<97>>, <<98, 58, 99, 32, 100>>),
      HttpHeader(<<32, 107>>, <<118>>),
      HttpHeader(<<107, 58, 120>>, <<118>>),
      HttpHeader(<<107>>, <<118, 13, 10>>) }

\* b"", b"\xff", b"\r\n\r\nx"
WireBodies == {<<>>, <<255>>, <<13, 10, 13, 10, 120>>}

\* the request line, the "Name: value" lines, a blank line and the body
Serialise(req) ==
    as_bytes(as_str(req.method)) \o <<32>> \o as_bytes(req.path) \o <<32>>
    \o as_bytes(req.version) \o <<13, 10>>
    \o HeaderBlock(req.headers, 1) \o <<13, 10>> \o req.body

RECURSIVE Fill(_, _)
\* header pushed until the collection is full
Fill(headers, header) ==
    LET pushed == VecPush(headers, MAX_HEADERS, header)
    IN  IF pushed.ok THEN Fill(pushed.vec, header) ELSE headers

Send(req) ==
    /\ original' = req
    /\ buffer' = Serialise(req)
    /\ end_of_headers' = find_double_crlf(buffer')
    /\ request' = try_from(buffer')
    /\ UNCHANGED <<reads, headers_str, method_in, method_out, response,
                   capacity, bytes, query, lookup, num_in, panicked, handled>>

\* GET / HTTP/1.1 with no headers and no body
FirstRequest == [NoOriginal EXCEPT !.path = <<47>>,
                                   !.version = <<72, 84, 84, 80, 47, 49, 46, 49>>]

InitRoundTrip ==
    /\ original = FirstRequest
    /\ buffer = Serialise(FirstRequest)
    /\ reads = 0
    /\ end_of_headers = find_double_crlf(buffer)
    /\ request = try_from(buffer)
    /\ IdleParse /\ IdleMethod /\ IdleBuild /\ IdleLookup /\ IdleDecimal /\ IdleHandler

SetWireMethod(m) == Send([original EXCEPT !.method = m])

SetWirePath(path) == Send([original EXCEPT !.path = path])

SetWireVersion(version) == Send([original EXCEPT !.version = version])

PushWireHeader(header) ==
    /\ Len(original.headers) < MaxRequestHeaders
    /\ Send([original EXCEPT !.headers = VecPush(@, MAX_HEADERS, header).vec])

FillWireHeaders ==
    /\ Len(original.headers) <= MaxRequestHeaders
    /\ Send([original EXCEPT !.headers = Fill(@, HttpHeader(<<107>>, <<118>>))])

SetWireBody(body) == Send([original EXCEPT !.body = body])

NextRoundTrip ==
    \/ \E m \in WireMethods : SetWireMethod(m)
    \/ \E path \in WirePaths : SetWirePath(path)
    \/ \E version \in WireVersions : SetWireVersion(version)
    \/ \E header \in WireHeaders : PushWireHeader(header)
    \/ FillWireHeaders
    \/ \E body \in WireBodies : SetWireBody(body)

SpecRoundTrip == InitRoundTrip /\ [][NextRoundTrip]_vars

NoWhitespace(s) == \A i \in 1..Len(s) : ~is_whitespace(s[i])

NoEdgeWhitespace(s) ==
    s = <<>> \/ (~is_whitespace(s[1]) /\ ~is_whitespace(s[Len(s)]))

NoLineEnd(s) == \A i \in 1..Len(s) : s[i] # 13 /\ s[i] # 10

\* the requests C10 is about
WellFormed(req) ==
    /\ req.method \in HttpMethod
    /\ NoWhitespace(req.path) /\ NoWhitespace(req.version)
    /\ Len(req.headers) <= 16
    /\ \A i \in 1..Len(req.headers) :
          /\ \A j \in 1..Len(req.headers[i].name) : req.headers[i].name[j] # 58
          /\ NoLineEnd(req.headers[i].name) /\ NoLineEnd(req.headers[i].value)
          /\ NoEdgeWhitespace(req.headers[i].name)
          /\ NoEdgeWhitespace(req.headers[i].value)

RoundTrips ==
    request = Ok(original.method, original.path, original.version,
                 original.headers, original.body)

\* C10 as stated: every well-formed request is parsed back as it was.
C10_AsStated == WellFormed(original) => RoundTrips

\* C10, amended: every well-formed request whose path and version are not
\* empty is parsed back as it was: the same method, path, version, headers in
\* the same order, and body.
C10_RoundTrip ==
    (WellFormed(original) /\ original.path # <<>> /\ original.version # <<>>)
        => RoundTrips

\* sixteen headers, the first with a colon in its value, and a body that is
\* not UTF-8, parsed back
C10_Witness ==
    /\ WellFormed(original)
    /\ Len(original.headers) = 16
    /\ original.headers[1].value = <<98, 58, 99, 32, 100>>
    /\ original.body = <<255>>
    /\ original.path = <<47, 233>>
    /\ RoundTrips

---------------------------------------------------------------------------
(* HttpResponse::get_header and SpecLookup: headers are pushed onto a       *)
(* response and looked up by name; every change of the headers or of the    *)
(* query applies get_header to the new pair.                                *)

\* u8::to_ascii_lowercase
to_ascii_lowercase(b) == IF b >= 65 /\ b <= 90 THEN b + 32 ELSE b

\* a plausible slip: the names are compared as they are
eq_exact(a, b) == a = b

\* str::eq_ignore_ascii_case: the same length, and byte by byte the same
\* after ASCII lower-casing
eq_ignore_ascii_case(a, b) ==
    LET x == as_bytes(a)
        y == as_bytes(b)
    IN  /\ Len(x) = Len(y)
        /\ \A i \in 1..Len(x) : to_ascii_lowercase(x[i]) = to_ascii_lowercase(y[i])

RECURSIVE find_header(_, _, _)
\* self.headers.iter().find(|h| h.name.eq_ignore_ascii_case(name)), from the
\* i-th header on
find_header(headers, name, i) ==
    IF i > Len(headers) THEN None
    ELSE IF eq_ignore_ascii_case(headers[i].name, name) THEN Some(headers[i])
         ELSE find_header(headers, name, i + 1)

\* HttpResponse::get_header: .map(|h| h.value)
get_header(resp, name) ==
    LET h == find_header(resp.headers, name, 1)
    IN  IF h.some THEN Some(h.v.value) ELSE None

MaxLookupHeaders == 2

CONTENT_TYPE == <<67, 111, 110, 116, 101, 110, 116, 45, 84, 121, 112, 101>>

\* "Content-Type", "content-type", "CONTENT-TYPE", "Content-Typ", "e-acute",
\* "E-acute", "k" and the Kelvin sign
LookupNames ==
    { CONTENT_TYPE,
      <<99, 111, 110, 116, 101, 110, 116, 45, 116, 121, 112, 101>>,
      <<67, 79, 78, 84, 69, 78, 84, 45, 84, 89, 80, 69>>,
      <<67, 111, 110, 116, 101, 110, 116, 45, 84, 121, 112>>,
      <<233>>, <<201>>, <<107>>, <<8490>> }

\* "a", "b"
LookupValues == {<<97>>, <<98>>}

Look(resp, name) ==
    /\ response' = resp
    /\ query' = name
    /\ lookup' = get_header(resp, name)
    /\ UNCHANGED <<buffer, reads, end_of_headers, request, headers_str, method_in,
                   method_out, capacity, bytes, original, num_in, panicked, handled>>

InitLookup ==
    /\ response = NoResponse
    /\ query = <<>>
    /\ lookup = get_header(NoResponse, <<>>)
    /\ capacity = 0 /\ bytes = <<>>
    /\ request = NoRequest
    /\ IdleRead /\ IdleParse /\ IdleMethod /\ IdleClient /\ IdleDecimal /\ IdleHandler

InsertHeader(header) ==
    /\ Len(response.headers) < MaxLookupHeaders
    /\ Look([response EXCEPT !.headers = VecPush(@, MAX_HEADERS, header).vec], query)

GetHeader(name) == Look(response, name)

NextLookup ==
    \/ \E name \in LookupNames, value \in LookupValues :
          InsertHeader(HttpHeader(name, value))
    \/ \E name \in LookupNames : GetHeader(name)

SpecLookup == InitLookup /\ [][NextLookup]_vars

\* the positions of the headers whose name is the query up to ASCII case
Matching ==
    {i \in 1..Len(response.headers) :
        to_ascii_uppercase(response.headers[i].name) = to_ascii_uppercase(query)}

\* C11: get_header returns the value of the first header, in insertion
\* order, whose name equals the query ignoring ASCII case, and None exactly
\* when no header name does.
C11_FirstMatchIgnoringCase ==
    IF Matching = {} THEN lookup = None
    ELSE lookup = Some(response.headers[CHOOSE i \in Matching :
                                           \A j \in Matching : i <= j].value)

\* a header stored as Content-Type is found by the query content-type: it is
\* the second header, and its value, not the other one, is returned
C11_Witness ==
    /\ Len(response.headers) = 2
    /\ response.headers[1].name = <<107>>
    /\ response.headers[1].value = <<97>>
    /\ response.headers[2].name = CONTENT_TYPE
    /\ response.headers[2].value = <<98>>
    /\ query = <<99, 111, 110, 116, 101, 110, 116, 45, 116, 121, 112, 101>>
    /\ lookup = Some(<<98>>)

---------------------------------------------------------------------------
(* SpecDecimal: write_decimal_to_buffer is applied to a buffer that holds   *)
(* some bytes already and to a usize that is typed digit by digit, scaled   *)
(* by ten, or set to the largest value of a 32-bit or 64-bit word.         *)

MaxTyped == 3

TypedDigits == {0, 1, 9}

\* b"", b"Content-Length: "
Prefilled == {<<>>, CONTENT_LENGTH_PREFIX}

\* free bytes of the buffer before the call
Rooms == {3, 20}

\* num.checked_mul(10) and checked_add(d), limb by limb
MulAdd10(num, d) ==
    LET c4 == num[4] * 10 + d
        c3 == num[3] * 10 + (c4 \div LIMB)
        c2 == num[2] * 10 + (c3 \div LIMB)
        c1 == num[1] * 10 + (c2 \div LIMB)
    IN  [overflow |-> c1 >= LIMB,
         v |-> <<c1 % LIMB, c2 % LIMB, c3 % LIMB, c4 % LIMB>>]

\* a < b on usize
Less(a, b) ==
    \E i \in 1..4 : a[i] < b[i] /\ \A j \in 1..(i - 1) : a[j] = b[j]

\* u32::MAX as usize, usize::MAX
WordMax(bits) == IF bits = 32 THEN <<0, 0, LIMB - 1, LIMB - 1>> ELSE USIZE_MAX

WriteDecimal(n) ==
    LET w == write_decimal_to_buffer(buffer, capacity, n)
    IN  /\ num_in' = n
        /\ panicked' = w.panic
        /\ bytes' = w.vec
        /\ UNCHANGED <<buffer, reads, end_of_headers, request, headers_str,
                       method_in, method_out, response, capacity, original,
                       query, lookup, handled>>

InitDecimal ==
    /\ buffer \in Prefilled
    /\ \E room \in Rooms : capacity = Len(buffer) + room
    /\ num_in = <<0, 0, 0, 0>>
    /\ panicked = write_decimal_to_buffer(buffer, capacity, num_in).panic
    /\ bytes = write_decimal_to_buffer(buffer, capacity, num_in).vec
    /\ reads = 0 /\ end_of_headers = None
    /\ request = NoRequest /\ response = NoResponse
    /\ IdleParse /\ IdleMethod /\ IdleClient /\ IdleLookup /\ IdleHandler

TypeDigit(d) ==
    /\ Less(num_in, as_usize(10 ^ (MaxTyped - 1)))
    /\ WriteDecimal(MulAdd10(num_in, d).v)

TimesTen ==
    /\ ~MulAdd10(num_in, 0).overflow
    /\ WriteDecimal(MulAdd10(num_in, 0).v)

SetWordMax(bits) == WriteDecimal(WordMax(bits))

NextDecimal ==
    \/ \E d \in TypedDigits : TypeDigit(d)
    \/ TimesTen
    \/ \E bits \in {32, 64} : SetWordMax(bits)

SpecDecimal == InitDecimal /\ [][NextDecimal]_vars

\* what the call appended
Appended == SubSeq(bytes, Len(buffer) + 1, Len(bytes))

RECURSIVE Value(_, _)
\* the number a digit string denotes, from the value of the digits before it
Value(digits, before) ==
    IF digits = <<>> THEN before
    ELSE Value(Tail(digits), MulAdd10(before, Head(digits) - 48).v)

\* decimal digits only, and no leading zero except for "0" itself
Canonical(digits) ==
    /\ digits # <<>>
    /\ \A i \in 1..Len(digits) : digits[i] >= 48 /\ digits[i] <= 57
    /\ (Len(digits) > 1 => digits[1] # 48)

\* twenty digits, those of 2^64 - 1, fit
EnoughSpace == capacity - Len(buffer) >= 20

WroteDecimal ==
    /\ ~panicked
    /\ Len(bytes) >= Len(buffer)
    /\ SubSeq(bytes, 1, Len(buffer)) = buffer
    /\ Canonical(Appended)
    /\ Value(Appended, <<0, 0, 0, 0>>) = num_in

\* C12: for every number, write_decimal_to_buffer appends to a buffer with
\* enough free space exactly the canonical decimal digits of the number, most
\* significant first, and leaves the bytes already there unchanged.
C12_CanonicalDigits == EnoughSpace => WroteDecimal

\* the same for the numbers of at most ten decimal digits, the numbers below
\* 10^10 = 2 * 2^32 + 21515 * 2^16 + 58368
BelowTenDigits == Less(num_in, <<0, 2, 21515, 58368>>)

DecimalUpToTenDigits == (EnoughSpace /\ BelowTenDigits) => WroteDecimal

\* C18: for every usize up to 2^64 - 1 the digit loop keeps its index below
\* the length of the scratch array: the call never indexes outside it.
C18_IndexInBounds == ~panicked

---------------------------------------------------------------------------
(* SimpleHandler (handler.rs) and SpecHandler: a request is changed field   *)
(* by field and handed to handle_request after every change.                *)

ROOT == <<47>>                                                \* "/"
HEALTH == <<47, 104, 101, 97, 108, 116, 104>>                   \* "/health"
TEXT_HTML == <<116, 101, 120, 116, 47, 104, 116, 109, 108>>
APPLICATION_JSON ==
    <<97, 112, 112, 108, 105, 99, 97, 116, 105, 111, 110, 47, 106, 115, 111, 110>>
TEXT_PLAIN == <<116, 101, 120, 116, 47, 112, 108, 97, 105, 110>>
\* "<h1>Hello from nanofish HTTP server!</h1>"
HELLO ==
    <<60, 104, 49, 62, 72, 101, 108, 108, 111, 32, 102, 114, 111, 109, 32, 110, 97, 110, 111, 102, 105, 115, 104, 32, 72, 84, 84, 80, 32>> \o
    <<115, 101, 114, 118, 101, 114, 33, 60, 47, 104, 49, 62>>
\* "{\"status\":\"ok\"}"
STATUS_OK == <<123, 34, 115, 116, 97, 116, 117, 115, 34, 58, 34, 111, 107, 34, 125>>
\* "404 Not Found"
NOT_FOUND_BODY == <<52, 48, 52, 32, 78, 111, 116, 32, 70, 111, 117, 110, 100>>

\* Ok(HttpResponse { status_code, headers: [Content-Type: content_type], body })
Served(status_code, content_type, body) ==
    [err |-> "",
     response |-> [status_code |-> status_code,
                   headers |-> VecPush(<<>>, MAX_HEADERS,
                                       HttpHeader(CONTENT_TYPE, content_type)).vec,
                   body |-> [kind |-> "Text", data |-> body]]]

\* a plausible slip: the health route taken for every path that starts with
\* "/health"
handle_request_prefix(req) ==
    CASE req.path = ROOT -> Served("Ok", TEXT_HTML, HELLO)
      [] req.path # ROOT /\ IsPrefix(HEALTH, req.path) ->
            Served("Ok", APPLICATION_JSON, STATUS_OK)
      [] OTHER -> Served("NotFound", TEXT_PLAIN, NOT_FOUND_BODY)

\* SimpleHandler::handle_request: match request.path { "/" .., "/health" .., _ .. }
handle_request(req) ==
    CASE req.path = ROOT -> Served("Ok", TEXT_HTML, HELLO)
      [] req.path = HEALTH -> Served("Ok", APPLICATION_JSON, STATUS_OK)
      [] OTHER -> Served("NotFound", TEXT_PLAIN, NOT_FOUND_BODY)

MaxHandlerHeaders == 1

\* "/", "/health", "/Health", "/health/", "/healt", "", "//", "/nonexistent"
HandlerPaths ==
    { ROOT, HEALTH, <<47, 72, 101, 97, 108, 116, 104>>, HEALTH \o <<47>>,
      <<47, 104, 101, 97, 108, 116>>, <<>>, <<47, 47>>,
      <<47, 110, 111, 110, 101, 120, 105, 115, 116, 101, 110, 116>> }

Handle(req) ==
    /\ original' = req
    /\ handled' = handle_request(req)
    /\ UNCHANGED <<buffer, reads, end_of_headers, request, headers_str, method_in,
                   method_out, response, capacity, bytes, query, lookup, num_in,
                   panicked>>

InitHandler ==
    /\ original = FirstRequest
    /\ handled = handle_request(FirstRequest)
    /\ request = NoRequest
    /\ IdleRead /\ IdleParse /\ IdleMethod /\ IdleBuild /\ IdleLookup /\ IdleDecimal

HandleMethod(m) == Handle([original EXCEPT !.method = m])

HandlePath(path) == Handle([original EXCEPT !.path = path])

HandleHeader(header) ==
    /\ Len(original.headers) < MaxHandlerHeaders
    /\ Handle([original EXCEPT !.headers = VecPush(@, MAX_HEADERS, header).vec])

HandleBody(body) == Handle([original EXCEPT !.body = body])

NextHandler ==
    \/ \E m \in HttpMethod : HandleMethod(m)
    \/ \E path \in HandlerPaths : HandlePath(path)
    \/ \E header \in WireHeaders : HandleHeader(header)
    \/ \E body \in WireBodies : HandleBody(body)

SpecHandler == InitHandler /\ [][NextHandler]_vars

\* what the response is for the path of the request
RoutedByPath ==
    LET resp == handled.response
        content_type == get_header(resp, CONTENT_TYPE)
    IN  /\ handled.err = ""
        /\ original.path = ROOT =>
              resp.status_code = "Ok" /\ content_type = Some(TEXT_HTML)
        /\ original.path = HEALTH =>
              /\ resp.status_code = "Ok"
              /\ content_type = Some(APPLICATION_JSON)
              /\ body_as_bytes(resp.body) = as_bytes(STATUS_OK)
        /\ original.path \notin {ROOT, HEALTH} =>
              /\ resp.status_code = "NotFound"
              /\ body_as_bytes(resp.body) = as_bytes(NOT_FOUND_BODY)

\* C13: handle_request never returns an error; "/" gives Ok with a text/html
\* Content-Type, "/health" gives Ok with an application/json Content-Type and
\* the body {"status":"ok"}, every other path gives NotFound with the body
\* 404 Not Found; and a change of the method, the headers or the body that
\* leaves the path as it was leaves the whole response as it was.
C13_RoutedByPathAlone ==
    /\ []RoutedByPath
    /\ [][original'.path = original.path => handled' = handled]_vars

\* a POST to /health with a header and a body is answered as the health route
C13_Witness ==
    /\ original.path = HEALTH
    /\ original.method = "POST"
    /\ Len(original.headers) = 1
    /\ original.body # <<>>
    /\ handled.err = ""
    /\ handled.response.status_code = "Ok"
    /\ handled.response.body.data = STATUS_OK

---------------------------------------------------------------------------
(* The Content-Length line of build_bytes, under SpecBuild.                 *)

\* what build_bytes has written when its header loop ends
HeadWritten ==
    WriteHeaders(write_status_line(<<>>, capacity, response.status_code),
                 capacity, response.headers, 1)

\* the line "Content-Length: N\r\n" of build_bytes is in the output, whole
LengthLineWritten ==
    /\ body_as_bytes(response.body) # <<>>
    /\ IsPrefix(HeadWritten \o LengthLine(body_as_bytes(response.body)), bytes)

\* C14: for every capacity, when the output holds the Content-Length: N line
\* that build_bytes adds, the blank line follows it and exactly the N bytes
\* of the body follow the blank line.
C14_LengthMatchesWrittenBody ==
    LengthLineWritten =>
        bytes = HeadWritten \o LengthLine(body_as_bytes(response.body))
                \o <<13, 10>> \o body_as_bytes(response.body)

\* C17: when the response's own headers hold Content-Length at most once, the
\* header block of the output holds at most one Content-Length line.
C17_SingleLengthLine ==
    InOwnHeaders(response) <= 1 =>
        Cardinality(Occurrences(bytes, <<13, 10>> \o CONTENT_LENGTH \o <<58>>)) <= 1

---------------------------------------------------------------------------
(* The headers of a parsed request, under SpecParse.                        *)

\* no line feed, and no whitespace at either end
Clean(s) == (\A i \in 1..Len(s) : s[i] # 10) /\ NoEdgeWhitespace(s)

\* C15: every header of a successfully parsed request has a name and a value
\* without a line feed and without leading or trailing whitespace, whatever
\* the input held.
C15_CleanHeaders ==
    request.err = "" =>
        \A i \in 1..Len(request.headers) :
            Clean(request.headers[i].name) /\ Clean(request.headers[i].value)

\* the last line "a: a\r" has no line feed after it: its CR is not taken
\* off by lines(), and the header parsed from it is a: a
C15_Witness ==
    /\ SubSeq(headers_str, Len(REQUEST_LINE) + 1, Len(headers_str))
          = <<10, 97, 58, 32, 97, 13>>
    /\ request.err = ""
    /\ request.headers = <<HttpHeader(<<97>>, <<97>>)>>

---------------------------------------------------------------------------
(* Streaming reads, under Spec: try_from after every read.                  *)

\* the bytes after the first separator of the data
AfterFirstSeparator(data) ==
    LET i == CHOOSE k \in 0..Len(data) : FirstSeparatorAt(data, k)
    IN  SubSeq(data, i + 5, Len(data))

\* the outcome of a parse without the body: the error, or the method, the
\* path, the version and the headers
HeaderPart(result) == [result EXCEPT !.body = <<>>]

\* after a read: Incomplete while there is no separator; a returned request
\* has for body the bytes after the first separator
ParsedSoFar ==
    /\ NoSeparator(buffer) => request.err = "Incomplete request headers"
    /\ (~NoSeparator(buffer) /\ request.err = "") =>
          request.body = AfterFirstSeparator(buffer)

\* a read into a buffer that holds the separator already changes nothing but
\* the body, which grows
HeaderPartFixed ==
    ~NoSeparator(buffer) =>
        /\ HeaderPart(request') = HeaderPart(request)
        /\ IsPrefix(request.body, request'.body)

\* C16: over any sequence of reads into one buffer, try_from returns
\* Incomplete request headers after every read that leaves the buffer without
\* CR LF CR LF, and once the separator is there the outcome for the header
\* part is fixed: every later read gives the same error, or the same method,
\* path, version and headers with the body grown to the bytes after the first
\* separator.
C16_StreamingReads == []ParsedSoFar /\ [][HeaderPartFixed]_vars

\* a request was recognised, and the reads after it brought a second
\* separator, which is now the body
C16_Witness ==
    /\ request.err = ""
    /\ request.body = DOUBLE_CRLF
    /\ end_of_headers = Some(Len(buffer) - 8)

=============================================================================
